---- MODULE Spec2Model ----
(***************************************************************************)
(* Parli token service (token-service/src/main.py): one FastAPI process    *)
(* with a health endpoint and a rate-limited token endpoint.               *)
(*                                                                         *)
(* The endpoints are "async def" coroutines served by one event loop.      *)
(* The rate-limit decorator's check and the handler body contain no        *)
(* await, so one request's check-and-handle runs without interleaving;     *)
(* requests interleave only between their arrival (body parsing) and the   *)
(* start of the decorated endpoint.                                        *)
(*                                                                         *)
(* limiter = Limiter(key_func=get_remote_address) takes slowapi's default  *)
(* configuration: the fixed-window strategy over the in-memory storage,    *)
(* i.e. one counter and one expiry time per key; a hit always increments   *)
(* the counter, the first hit of a window sets the expiry to now + window, *)
(* and an entry whose expiry has passed is dropped before the next hit.    *)
(***************************************************************************)
EXTENDS Integers, Sequences, FiniteSets, TLC

\* ---------------------------------------------------------------- constants

\* @limiter.limit("10/minute"): 10 hits per window of 60 seconds
Limit == 10
Window == 60
\* timedelta(minutes=5), in seconds
TokenLifetime == 300
\* len(api_key) < 20
MinKeyLen == 20
\* tolerance of the expiry test (295 <= time_diff <= 305), in seconds
Tolerance == 5

\* ------------------------------------------------------------------- bounds

\* the clock advances in steps of TickStep seconds, at most MaxTicks times
TickStep == 30
MaxTicks == 2
\* POST requests of one run
MaxRequests == 12
\* requests in flight at once
MaxInFlight == 2

\* the address of the test suite's TestClient, and another one
TestClient == "testclient"
Addrs == {TestClient, "10.0.0.2"}
ClientIds == {"None", "mobile-app-v1.0"}

\* ------------------------------------------------------------------ secrets

\* A string is a sequence of one-character strings.
Pad(c, n) == [i \in 1..n |-> c]
Prefix == <<"s", "k", "-">>

Unset == [set |-> FALSE, val |-> <<>>]
EnvOf(s) == [set |-> TRUE, val |-> s]

KeyEmpty == <<>>
KeyShort == Prefix \o Pad("a", MinKeyLen - 4)
KeyNoPrefix == <<"p", "k", "-">> \o Pad("a", MinKeyLen - 3)
KeyMin == Prefix \o Pad("a", MinKeyLen - 3)
KeyNewline == Prefix \o <<"\n">> \o Pad("a", MinKeyLen - 4)

EnvValues ==
    {Unset} \cup {EnvOf(s) : s \in {KeyEmpty, KeyShort, KeyNoPrefix,
                                     KeyMin, KeyNewline}}

VARIABLES now, environ, storage, expirations, pending, last, win, recent,
          served

vars == <<now, environ, storage, expirations, pending, last, win, recent,
          served>>

\* ------------------------------------------------------------ token handler

DetailMissing == "Service configuration error: API key missing"
DetailInvalid == "Service configuration error: Invalid API key format"
DetailInternal == "Internal server error during token creation"
\* str(e) of an unexpected exception
ExcText == "OSError: entropy source unavailable"
RateLimitError == "Rate limit exceeded: 10 per 1 minute"

NoToken == <<>>

\* os.getenv("OPENAI_API_KEY"): None when the variable is not set
getenv(env) == [none |-> ~env.set, val |-> env.val]

\* `not api_key`: None or the empty string
KeyMissing(api_key) == api_key.none \/ Len(api_key.val) = 0

StartsWith(s, p) == Len(s) >= Len(p) /\ SubSeq(s, 1, Len(p)) = p

\* Mutant: the length test off by one (len(api_key) <= 20).
KeyFormatInvalidOffByOne(s) == ~StartsWith(s, Prefix) \/ Len(s) <= MinKeyLen

\* not api_key.startswith("sk-") or len(api_key) < 20
KeyFormatInvalid(s) == ~StartsWith(s, Prefix) \/ Len(s) < MinKeyLen

\* Mutant: timedelta(seconds=5).
ExpiresAtSeconds(t) == t + TokenLifetime \div 60

\* datetime.now(timezone.utc) + timedelta(minutes=5)
ExpiresAt(t) == t + TokenLifetime

Raise(type, status, detail) ==
    [raised |-> type, status |-> status, detail |-> detail,
     token |-> NoToken, expires_at |-> 0, token_type |-> ""]

\* TokenResponse(token=..., expires_at=..., token_type=...)
TokenResponse(token, expires_at, token_type) ==
    [raised |-> "none", status |-> 200, detail |-> "",
     token |-> token, expires_at |-> expires_at, token_type |-> token_type]

\* The body of the try block. fault: token synthesis (secrets.token_urlsafe,
\* the construction of the response model) raises an unexpected exception.
TryBody(env, t, fault) ==
    LET api_key == getenv(env)
    IN  IF KeyMissing(api_key)
        THEN Raise("HTTPException", 500, DetailMissing)
        ELSE IF KeyFormatInvalid(api_key.val)
        THEN Raise("HTTPException", 500, DetailInvalid)
        ELSE IF fault
        THEN Raise("Exception", 0, ExcText)
        ELSE TokenResponse(api_key.val, ExpiresAt(t), "Bearer")

\* Mutant: no `except HTTPException: raise`, every exception normalized.
ExceptClausesGenericOnly(out) ==
    IF out.raised = "none" THEN out
    ELSE Raise("HTTPException", 500, DetailInternal)

\* Mutant: the generic clause answers with detail=str(e).
ExceptClausesLeak(out) ==
    IF out.raised = "Exception"
    THEN Raise("HTTPException", 500, out.detail)
    ELSE out

\* except HTTPException: raise / except Exception: raise HTTPException(500, ...)
ExceptClauses(out) ==
    IF out.raised = "HTTPException" THEN out
    ELSE IF out.raised = "Exception"
    THEN Raise("HTTPException", 500, DetailInternal)
    ELSE out

create_ephemeral_token(env, t, fault) == ExceptClauses(TryBody(env, t, fault))

\* What the client receives: the payload of a returned TokenResponse, or the
\* status and detail of the HTTPException that left the handler.
Body(out, error, read) ==
    [status |-> out.status, detail |-> out.detail, error |-> error,
     token |-> out.token, expires_at |-> out.expires_at,
     token_type |-> out.token_type, read |-> read]

\* _rate_limit_exceeded_handler: 429 and {"error": "Rate limit exceeded: ..."}
RateLimitResponse ==
    [status |-> 429, detail |-> "", error |-> RateLimitError,
     token |-> NoToken, expires_at |-> 0, token_type |-> "", read |-> FALSE]

\* Mutant: the limiter applied after the handler body has run.
EndpointHandlerFirst(admitted, env, t, fault) ==
    LET b == Body(create_ephemeral_token(env, t, fault), "", TRUE)
    IN  IF b.status = 500 \/ admitted THEN b
        ELSE [RateLimitResponse EXCEPT !.read = TRUE]

\* The decorated endpoint: the limiter's verdict first, the handler only
\* when the request is admitted. read: the handler body ran (and read the
\* secret).
Endpoint(admitted, env, t, fault) ==
    IF admitted
    THEN Body(create_ephemeral_token(env, t, fault), "", TRUE)
    ELSE RateLimitResponse

\* Mutant: a health check that looks at the configuration.
health_check_configured(t) ==
    IF KeyMissing(getenv(environ))
    THEN [status |-> 503, body |-> "unhealthy", timestamp |-> t]
    ELSE [status |-> 200, body |-> "healthy", timestamp |-> t]

\* health_check(): no inputs but the clock
health_check(t) == [status |-> 200, body |-> "healthy", timestamp |-> t]

\* ------------------------------------------------------------- rate limiter

\* Mutant: a key function that gives every client the same key.
get_remote_address_shared(request) == TestClient

\* key_func=get_remote_address
get_remote_address(request) == request.addr

\* the storage's get: an entry whose expiry has passed counts as absent
StorageGet(key, t) == IF expirations[key] <= t THEN 0 ELSE storage[key]

\* Mutant: a window of half the length.
ExpiryHalf(t) == t + Window \div 2

\* the expiry set by the first hit of a window
Expiry(t) == t + Window

\* Mutant: the limit is exclusive.
WithinLimitStrict(n) == n < Limit

\* Mutant: the verdict on the counter as read before the increment.
WithinLimitStale(n) == n - 1 <= Limit

\* the strategy's verdict on the counter value returned by the increment
WithinLimit(n) == n <= Limit

\* -------------------------------------------------------------- observation

\* What an observer of the traffic records, from request times and statuses
\* alone. win[a]: the fixed window of address a's latest request (start: the
\* time of the first request at or after the end of the previous window),
\* the number k of a's requests in it, the number adm of them answered with
\* a status other than 429, and race: the window's Limit-th request was
\* served while another request of a was waiting, so that a's next request
\* served is one that was in flight together with it. recent: the times of
\* the requests of one address, TestClient, in the last Window seconds that
\* were answered with a status other than 429.
NoWindow == [start |-> 0, k |-> 0, adm |-> 0, race |-> FALSE]

Observe(w, t, admitted, waiting) ==
    LET d == IF admitted THEN 1 ELSE 0
    IN  IF w.k = 0 \/ t >= w.start + Window
        THEN [start |-> t, k |-> 1, adm |-> d, race |-> FALSE]
        ELSE [start |-> w.start, k |-> w.k + 1, adm |-> w.adm + d,
              race |-> IF w.k + 1 = Limit THEN waiting ELSE w.race]

Since(h, t) == SelectSeq(h, LAMBDA x : x > t)

RECURSIVE Total(_, _)
Total(f, S) ==
    IF S = {} THEN 0
    ELSE LET a == CHOOSE x \in S : TRUE
         IN  f[a] + Total(f, S \ {a})

\* pending[a]: the number of requests of address a that have arrived and
\* wait for the event loop to run the endpoint.
InFlight == Total(pending, Addrs)

\* last: the response being sent, from the step that produces it until the
\* next event (so environ and now are those the response was produced in),
\* with what the request was: path, addr and client_id of the request, fault
\* as in TryBody, and the observer's (start, k, race) of a POST.
NoResponse ==
    [path |-> "", status |-> 0, detail |-> "", error |-> "",
     token |-> NoToken, expires_at |-> 0, token_type |-> "", body |-> "",
     timestamp |-> 0, read |-> FALSE,
     addr |-> "", client_id |-> "None", fault |-> FALSE,
     start |-> 0, k |-> 0, race |-> FALSE]

\* ------------------------------------------------------------------ actions

Init ==
    /\ now = 0
    /\ environ \in EnvValues
    /\ storage = [a \in Addrs |-> 0]
    /\ expirations = [a \in Addrs |-> 0]
    /\ pending = [a \in Addrs |-> 0]
    /\ last = NoResponse
    /\ win = [a \in Addrs |-> NoWindow]
    /\ recent = <<>>
    /\ served = 0

\* A POST /realtime/ephemeral arrives from address a and its body is read.
Receive(a) ==
    /\ InFlight < MaxInFlight
    /\ served + InFlight < MaxRequests
    /\ pending' = [pending EXCEPT ![a] = @ + 1]
    /\ last' = NoResponse
    /\ UNCHANGED <<now, environ, storage, expirations, win, recent, served>>

\* The event loop runs the decorated endpoint for a waiting request of
\* address a, with the parsed body (cid): the limiter counts the hit and
\* decides, then the handler body runs if the request is admitted.
Process(a, cid, fault) ==
    /\ pending[a] > 0
    /\ LET request == [addr |-> a, client_id |-> cid]
           key == get_remote_address(request)
           n == StorageGet(key, now) + 1
           out == Endpoint(WithinLimit(n), environ, now, fault)
           w == Observe(win[a], now, out.status # 429, pending[a] > 1)
       IN  /\ storage' = [storage EXCEPT ![key] = n]
           /\ expirations' = [expirations EXCEPT
                                ![key] = IF n = 1 THEN Expiry(now) ELSE @]
           /\ win' = [win EXCEPT ![a] = w]
           /\ recent' = IF a = TestClient /\ out.status # 429
                        THEN Append(recent, now) ELSE recent
           /\ served' = served + 1
           /\ last' =
                 [path |-> "/realtime/ephemeral",
                  status |-> out.status, detail |-> out.detail,
                  error |-> out.error, token |-> out.token,
                  expires_at |-> out.expires_at,
                  token_type |-> out.token_type, body |-> "",
                  timestamp |-> 0, read |-> out.read,
                  addr |-> a, client_id |-> cid, fault |-> fault,
                  start |-> w.start, k |-> w.k, race |-> w.race]
    /\ pending' = [pending EXCEPT ![a] = @ - 1]
    /\ UNCHANGED <<now, environ>>

\* GET /healthz from address a.
HealthCheck(a) ==
    /\ LET out == health_check(now)
       IN  last' = [NoResponse EXCEPT !.path = "/healthz",
                                      !.status = out.status,
                                      !.body = out.body,
                                      !.timestamp = out.timestamp,
                                      !.addr = a]
    /\ UNCHANGED <<now, environ, storage, expirations, pending, win, recent,
                   served>>

\* The operator (or a test's patch.dict) changes OPENAI_API_KEY.
SetEnv(v) ==
    /\ v # environ
    /\ environ' = v
    /\ last' = NoResponse
    /\ UNCHANGED <<now, storage, expirations, pending, win, recent,
                   served>>

\* Time passes; the observer forgets what is older than Window seconds.
Tick ==
    /\ now < MaxTicks * TickStep
    /\ now' = now + TickStep
    /\ recent' = Since(recent, now' - Window)
    /\ last' = NoResponse
    /\ UNCHANGED <<environ, storage, expirations, pending, win, served>>

\* The service as its test suite drives it: one client address, the secret
\* patched between requests, token synthesis never failing.
Next ==
    \/ Receive(TestClient)
    \/ \E cid \in ClientIds : Process(TestClient, cid, FALSE)
    \/ HealthCheck(TestClient)
    \/ \E v \in EnvValues : SetEnv(v)
    \/ Tick

Spec == Init /\ [][Next]_vars

\* The same, in an environment where token synthesis may fail.
NextFault ==
    \/ Receive(TestClient)
    \/ \E cid \in ClientIds, fault \in BOOLEAN :
          Process(TestClient, cid, fault)
    \/ HealthCheck(TestClient)
    \/ \E v \in EnvValues : SetEnv(v)
    \/ Tick

SpecFault == Init /\ [][NextFault]_vars

\* The limiter under load: a well-formed secret, several client addresses
\* posting without a body.
InitLimiter == Init /\ environ = EnvOf(KeyMin)

NextLimiter ==
    \/ \E a \in Addrs : Receive(a)
    \/ \E a \in Addrs : Process(a, "None", FALSE)
    \/ Tick

SpecLimiter == InitLimiter /\ [][NextLimiter]_vars

\* ------------------------------------------------------------------- claims

Posted == last.path = "/realtime/ephemeral"
Healthz == last.path = "/healthz"
Other == CHOOSE a \in Addrs : a # TestClient

\* The step serves a waiting request of address a.
Serves(a) == pending'[a] < pending[a]

\* s matches ^sk-.{17,}: "sk-", then 17 characters none of which is a newline
MatchesPattern(s) ==
    /\ Len(s) >= MinKeyLen
    /\ s[1] = "s" /\ s[2] = "k" /\ s[3] = "-"
    /\ \A i \in 4..MinKeyLen : s[i] # "\n"

\* s starts with "sk-" and has at least 20 characters
WellFormed(s) ==
    /\ Len(s) >= MinKeyLen
    /\ s[1] = "s" /\ s[2] = "k" /\ s[3] = "-"

FixedDetails == {DetailMissing, DetailInvalid, DetailInternal}

\* C1: with a well-formed secret and a limiter that starts fresh, the first
\* 10 requests of an address in one window (the 60 seconds from its first
\* request) return 200, the 11th returns 429, and the first request after
\* the window has elapsed (position 1 of a new window) returns 200 again.
C1_TenThenReject ==
    Posted =>
        /\ last.k <= Limit => last.status = 200
        /\ last.k = Limit + 1 => last.status = 429

\* The address sent all 12 requests of the run; the 12th opens a new window
\* at or after second 60, so the first 11 fell in the window that began at 0.
C1_Witness ==
    /\ Posted /\ last.addr = TestClient /\ last.status = 200
    /\ last.k = 1 /\ last.start >= Window
    /\ served = Limit + 2 /\ win[Other].k = 0

\* C2: when the last slot of a window is taken while another request of the
\* same address is in flight, the request that takes it (the window's 10th)
\* returns 200 and the other one (the 11th) returns 429, leaving exactly 10
\* admitted: the two are never both admitted.
C2_NoDoubleAdmission ==
    Posted /\ last.race =>
        /\ last.k = Limit => last.status = 200
        /\ last.k = Limit + 1 =>
              last.status = 429 /\ win[last.addr].adm = Limit

C2_Witness ==
    /\ Posted /\ last.race /\ last.k = Limit + 1 /\ last.status = 429
    /\ now = last.start

\* C3 as stated: every POST made while no secret is configured is answered
\* 500 "Service configuration error: API key missing", in every state.
C3_AlwaysMissing ==
    Posted /\ environ = Unset =>
        last.status = 500 /\ last.detail = DetailMissing

\* C3 amended: a POST made while no secret is configured is answered 500
\* "Service configuration error: API key missing" when the rate limiter
\* admits it and 429 when the address is over its limit; either way the
\* limiter counts it as one request of its address (the counter equals the
\* number of requests observed in the window) and nothing else changes.
C3_MissingWhenAdmitted ==
    Posted /\ environ = Unset =>
        /\ last.k <= Limit =>
              /\ last.status = 500 /\ last.detail = DetailMissing
              /\ last.token = NoToken
        /\ last.k > Limit => last.status = 429
        /\ storage[last.addr] = last.k
        /\ expirations[last.addr] = last.start + Window

C3_Witness ==
    /\ Posted /\ environ = Unset /\ last.status = 500
    /\ last.detail = DetailMissing /\ last.k > 1

\* C4 as stated: a POST with a configured secret that does not match
\* ^sk-.{17,} is answered 500 "Service configuration error: Invalid API key
\* format", and one with a secret that matches is answered 200.
C4_ByPattern ==
    Posted /\ environ.set =>
        IF MatchesPattern(environ.val)
        THEN last.status = 200
        ELSE last.status = 500 /\ last.detail = DetailInvalid

\* C4 amended: for a POST the rate limiter admits, a configured secret that
\* is empty gives 500 "API key missing"; a non-empty one that does not start
\* with "sk-" or is shorter than 20 characters gives 500 "Invalid API key
\* format"; one that starts with "sk-" and has at least 20 characters gives
\* 200, also when a newline keeps it from matching ^sk-.{17,}.
C4_ByPrefixAndLength ==
    Posted /\ environ.set /\ last.k <= Limit =>
        IF Len(environ.val) = 0
        THEN last.status = 500 /\ last.detail = DetailMissing
        ELSE IF WellFormed(environ.val)
        THEN last.status = 200
        ELSE last.status = 500 /\ last.detail = DetailInvalid

C4_Witness ==
    /\ Posted /\ environ = EnvOf(KeyShort)
    /\ last.status = 500 /\ last.detail = DetailInvalid

\* C5: every 200 response of the token endpoint, with or without a
\* client_id, has token_type "Bearer", the secret the environment holds
\* during the request as token, and the time of the request plus 300
\* seconds as expires_at; it depends on nothing earlier.
C5_Payload ==
    Posted /\ last.status = 200 =>
        /\ last.token_type = "Bearer"
        /\ last.token = environ.val
        /\ last.expires_at = now + TokenLifetime
        /\ last.expires_at - now >= TokenLifetime - Tolerance
        /\ last.expires_at - now <= TokenLifetime + Tolerance

C5_Witness ==
    /\ Posted /\ last.status = 200 /\ last.client_id # "None"
    /\ now > 0 /\ last.k > 1 /\ environ = EnvOf(KeyNewline)

\* C6 as stated: within any 60 seconds at most 10 requests of an address
\* are answered with a status other than 429.
C6_SlidingMinute == Len(recent) <= Limit

\* C6 amended: within one rate-limit window (the 60 seconds from the first
\* request an address makes after its previous window ended) at most 10
\* requests of the address are answered with a status other than 429, and
\* every further request in that window is answered 429; across the end of
\* a window more than 10 can be admitted within 60 seconds.
C6_PerWindow ==
    /\ \A a \in Addrs : win[a].adm <= Limit
    /\ Posted /\ last.k > Limit => last.status = 429

\* More than 10 admitted within the last 60 seconds, each window within 10.
C6_Witness == Posted /\ Len(recent) > Limit

\* C7: a request the rate limiter rejects is answered 429 with the error
\* body and the handler body does not run for it: it reads no secret, gives
\* no 500 and no token, whatever the secret is; and the limiter rejects
\* exactly the requests beyond the 10th of a window, before any
\* configuration check.
C7_RejectedBeforeHandler ==
    Posted =>
        /\ last.k > Limit => last.status = 429
        /\ last.status = 429 =>
              /\ ~last.read /\ last.error = RateLimitError
              /\ last.detail = "" /\ last.token = NoToken
        /\ last.status # 429 => last.read

C7_Witness == Posted /\ last.status = 429 /\ environ = Unset

\* C8: GET /healthz is answered 200 "healthy" with the current time,
\* whatever the secret and however many requests the address has made, and
\* it is not counted by the limiter (the counter stays the number of POSTs
\* observed).
C8_HealthAlways ==
    Healthz =>
        /\ last.status = 200 /\ last.body = "healthy"
        /\ last.timestamp = now
        /\ storage[last.addr] = win[last.addr].k

C8_Witness ==
    /\ Healthz /\ environ = Unset
    /\ win[last.addr].k > Limit /\ now < win[last.addr].start + Window

\* C9: a missing or malformed secret reaches the client as 500 with its own
\* detail even when token synthesis would fail; any other exception in the
\* handler becomes 500 "Internal server error during token creation"; so
\* every 500 carries one of the three fixed details, and no 429 or 500
\* carries a token or the exception's text.
C9_ErrorsNormalized ==
    Posted =>
        /\ last.status \in {200, 429, 500}
        /\ last.status = 500 =>
              /\ last.detail \in FixedDetails /\ last.token = NoToken
              /\ last.detail = DetailMissing <=>
                    (~environ.set \/ Len(environ.val) = 0)
              /\ last.detail = DetailInternal <=>
                    (last.fault /\ environ.set /\ WellFormed(environ.val))
        /\ last.status = 429 =>
              last.token = NoToken /\ last.error = RateLimitError
        /\ last.fault /\ last.k <= Limit => last.status = 500

C9_Witness ==
    /\ Posted /\ last.fault /\ last.status = 500
    /\ last.detail = DetailInternal

\* C10: each address has its own account: in one window at most 10 of its
\* requests are admitted, a request's outcome depends on its own address's
\* window alone, and serving a request of one address changes neither the
\* counter, the expiry nor the observed window of another.
C10_PerAddress ==
    /\ [](\A a \in Addrs : win[a].adm <= Limit /\ storage[a] = win[a].k)
    /\ [][\A a \in Addrs :
            Serves(a) =>
              /\ last'.status = 429 <=> win'[a].k > Limit
              /\ \A b \in Addrs \ {a} :
                    /\ storage'[b] = storage[b]
                    /\ expirations'[b] = expirations[b]
                    /\ win'[b] = win[b]]_vars

\* One address is over its limit while the other is admitted.
C10_Witness ==
    /\ Posted /\ last.addr = Other /\ last.status = 200
    /\ win[TestClient].k > Limit
    /\ now < win[TestClient].start + Window

====
